---- MODULE Spec2Model ----
(***************************************************************************)
(* Transaction query and analytics layer of the finance tracker            *)
(* (server/controllers/transactionController.js and the statics of the     *)
(* Transaction model).  The store is the Transaction collection; every     *)
(* handler is an action that runs the handler's store calls in order and   *)
(* leaves the HTTP response in resp.  Requests are served one at a time:   *)
(* the client takes the response (Receive) before the next request.        *)
(* SpecConc adds one request in flight, deleteAccount taken one store call *)
(* at a time, with the other requests served between its calls.            *)
(*                                                                         *)
(* Text values are tuples of one-character strings, so that the regular    *)
(* expression match of $regex and the substring match it is compared with  *)
(* are both computed.  Amounts are whole currency units, dates are day     *)
(* numbers of a small calendar.  Document fields that no handler reads     *)
(* (paymentMethod, tags, location, receipt, currency, exchangeRate,        *)
(* timestamps) are left out of the documents.                              *)
(***************************************************************************)
EXTENDS Integers, Sequences, FiniteSets, TLC

VARIABLES
  transactions,  \* the Transaction collection: a set of documents
  nextId,        \* the next _id the store hands out
  resp,          \* the HTTP response on its way to the client, or NoResp
  calls,         \* the store calls made while serving the request of resp
  walk,          \* a client paging through one list query, or NoWalk
  users,         \* the User collection: the ids of the registered users
  inflight       \* the deleteAccount request between two store calls, or NoReq

vars == <<transactions, nextId, resp, calls, walk, users, inflight>>

(***************************************************************************)
(* Bounds                                                                  *)
(***************************************************************************)
MaxTx == 2      \* documents ever created

MaxPage == MaxTx + 1   \* page numbers asked for: one beyond the last page
MaxLimit == MaxTx      \* explicit page sizes

(***************************************************************************)
(* Program constants                                                       *)
(***************************************************************************)
DefaultPage == 1
DefaultLimit == 10
MaxAmount == 1000000
DefaultMonths == 12

Users == {"u1", "u2"}
Ids == 1..MaxTx

Min(a, b) == IF a < b THEN a ELSE b

(***************************************************************************)
(* Text                                                                    *)
(***************************************************************************)
Food == <<"F", "o", "o", "d">>
Fuel == <<"F", "u", "e", "l">>
Salary == <<"S", "a", "l", "a", "r", "y">>
Bar == <<"b", "a", "r">>
May == <<"M", "a", "y">>

\* The 'i' option of $regex: characters are compared after case folding.
Lower(c) ==
  CASE c = "F" -> "f"
    [] c = "S" -> "s"
    [] c = "M" -> "m"
    [] OTHER -> c

\* $regex with the request's string as the pattern, unanchored.  The pattern
\* language modelled: a literal character matches itself (case folded), "."
\* matches any one character.
RegexMatchAt(p, s, i) ==
  \A j \in 1..Len(p) : p[j] = "." \/ Lower(p[j]) = Lower(s[i + j - 1])

RegexTest(p, s) ==
  \E i \in 1..(Len(s) - Len(p) + 1) : RegexMatchAt(p, s, i)

(***************************************************************************)
(* Dates: new Date(string)                                                 *)
(***************************************************************************)
DigitValue(c) ==
  CASE c = "1" -> 1
    [] c = "2" -> 2
    [] c = "3" -> 3
    [] OTHER -> 0

IsDateString(s) == Len(s) = 1 /\ s[1] \in {"1", "2", "3"}

\* new Date(s): the day the string names, or Invalid Date (valid = FALSE).
NewDate(s) ==
  IF IsDateString(s)
    THEN [valid |-> TRUE, time |-> DigitValue(s[1])]
    ELSE [valid |-> FALSE, time |-> 0]

(***************************************************************************)
(* The calendar of the day numbers.  Months are numbered from month 0,     *)
(* which starts on day 1; the months are of unequal length (alternately    *)
(* two days and one day) and two months make a year, so that a day of the  *)
(* month can be missing from another month, as the 31st is.                *)
(***************************************************************************)
monthLength(m) == IF m % 2 = 0 THEN 2 ELSE 1

firstDay(m) == 3 * (m \div 2) + (IF m % 2 = 0 THEN 1 ELSE 3)

monthOf(date) == 2 * ((date - 1) \div 3) + (IF (date - 1) % 3 = 2 THEN 1 ELSE 0)

\* Date.prototype.getDate: the day of the month, from 1
getDate(date) == date - firstDay(monthOf(date)) + 1

\* Date.prototype.getMonth: the month of the year, from 0
getMonth(date) == monthOf(date) % 2

\* Date.prototype.setMonth: the same day of the month in the given month of
\* the date's year; a month below 0 or above the last counts into the
\* neighbouring years, and a day the month does not have runs over into
\* the next month.
setMonth(date, month) ==
  firstDay(monthOf(date) - getMonth(date) + month) + getDate(date) - 1

\* $year and $month of the aggregation
yearOf(date) == monthOf(date) \div 2
monthOfYear(date) == getMonth(date) + 1

(***************************************************************************)
(* Request bodies.  A body is a record of the fields the request carries.  *)
(***************************************************************************)
B1 == [type |-> "expense", amount |-> 50, category |-> Food,
       description |-> Bar, notes |-> <<>>, date |-> 1]
B2 == [type |-> "income", amount |-> 1000, category |-> Salary,
       description |-> <<>>, notes |-> May, date |-> 2]
B3 == [type |-> "expense", amount |-> 30, category |-> Fuel,
       description |-> <<>>, notes |-> <<>>, date |-> 3]
BadAmount == [type |-> "expense", amount |-> 0, category |-> Food,
              description |-> <<>>, notes |-> <<>>, date |-> 1]

TooMuch == [type |-> "income", amount |-> MaxAmount + 1, category |-> Salary,
            description |-> <<>>, notes |-> <<>>, date |-> 2]

Bodies ==
  {B1, B2, B3, BadAmount, TooMuch} \cup {[user |-> u] @@ B1 : u \in Users}

\* What a field of a body is, or d when the body does not carry it.
Field(b, f, d) == IF f \in DOMAIN b THEN b[f] ELSE d

\* recurringDetails with neither frequency nor nextDate, and with both
NoDetails == [frequency |-> <<>>, nextDate |-> <<>>]
WeeklyDetails == [frequency |-> <<"weekly">>, nextDate |-> <<3>>]

\* Bodies of recurring transactions: with the details, and without them
Weekly == [isRecurring |-> TRUE, recurringDetails |-> WeeklyDetails] @@ B3
Bare == [isRecurring |-> TRUE] @@ B3

RecurringBodies == {B1, Weekly, Bare}

\* Bodies of updates that carry the recurring fields alone
RecurringUpdates ==
  {[isRecurring |-> TRUE], [isRecurring |-> FALSE],
   [isRecurring |-> TRUE, recurringDetails |-> WeeklyDetails]}

(***************************************************************************)
(* transactionSchema: the validators of the fields modelled                *)
(***************************************************************************)
TypeEnum == {"income", "expense"}

\* min: [0.01, ...] and max: [1000000, ...]; with whole units the minimum
\* is "greater than zero".
amountErrors(amount) ==
  IF amount <= 0
    THEN {[field |-> "amount", message |-> "Amount must be greater than 0"]}
    ELSE IF amount > MaxAmount
      THEN {[field |-> "amount", message |-> "Amount cannot exceed 1,000,000"]}
      ELSE {}

typeErrors(type) ==
  IF type \in TypeEnum
    THEN {}
    ELSE {[field |-> "type", message |-> "Type must be either income or expense"]}

categoryErrors(category) ==
  IF category = <<>>
    THEN {[field |-> "category", message |-> "Category is required"]}
    ELSE {}

FrequencyEnum == {"daily", "weekly", "monthly", "yearly"}

frequencyErrors(frequency) ==
  IF frequency # <<>> /\ frequency[1] \notin FrequencyEnum
    THEN {[field |-> "recurringDetails.frequency",
           message |-> "frequency is not a valid enum value"]}
    ELSE {}

\* required: function() { return this.isRecurring; } with the document as this
requiredErrors(isRecurring, details) ==
  {[field |-> f, message |-> "Path is required."] :
     f \in {g \in {"recurringDetails.frequency", "recurringDetails.nextDate"} :
              /\ isRecurring
              /\ \/ g = "recurringDetails.frequency" /\ details.frequency = <<>>
                 \/ g = "recurringDetails.nextDate" /\ details.nextDate = <<>>}}

\* Document validation of Transaction.create.
validateDocument(doc) ==
  typeErrors(doc.type) \cup amountErrors(doc.amount) \cup categoryErrors(doc.category)
  \cup frequencyErrors(doc.recurringDetails.frequency)
  \cup requiredErrors(doc.isRecurring, doc.recurringDetails)

\* Mutant of validateUpdate: runValidators is off, nothing is validated.
validateUpdateOff(body) == {}

\* runValidators: true, the update validators run on the paths the update
\* sets, and on those alone; a value that is set passes required, and the
\* function of required has no document to read isRecurring from.
validateUpdate(body) ==
  (IF "type" \in DOMAIN body THEN typeErrors(body.type) ELSE {})
  \cup (IF "amount" \in DOMAIN body THEN amountErrors(body.amount) ELSE {})
  \cup (IF "recurringDetails" \in DOMAIN body
         THEN frequencyErrors(body.recurringDetails.frequency) ELSE {})

(***************************************************************************)
(* Query Builder: getTransactions, lines 21-44                             *)
(***************************************************************************)
\* A request's query string.  page, limit, type, sortBy, sortOrder are <<>>
\* when absent and <<v>> when given; category, startDate, endDate, search
\* are texts, the empty text (falsy, like an absent one) being <<>>.
\* The store-level predicate: each optional term is <<>> or <<term>>.

\* Mutant of buildQuery: the type is taken over whatever it is.
buildQueryAnyType(userId, q) ==
  [user |-> userId,
   type |-> q.type,
   category |-> IF q.category # <<>> THEN <<q.category>> ELSE <<>>,
   gte |-> IF q.startDate # <<>> THEN <<NewDate(q.startDate)>> ELSE <<>>,
   lte |-> IF q.endDate # <<>> THEN <<NewDate(q.endDate)>> ELSE <<>>,
   or |-> IF q.search # <<>> THEN <<q.search>> ELSE <<>>]

buildQuery(userId, q) ==
  [user |-> userId,
   type |-> IF q.type # <<>> /\ q.type[1] \in TypeEnum THEN q.type ELSE <<>>,
   category |-> IF q.category # <<>> THEN <<q.category>> ELSE <<>>,
   gte |-> IF q.startDate # <<>> THEN <<NewDate(q.startDate)>> ELSE <<>>,
   lte |-> IF q.endDate # <<>> THEN <<NewDate(q.endDate)>> ELSE <<>>,
   or |-> IF q.search # <<>> THEN <<q.search>> ELSE <<>>]

\* Mongoose casts the conditions of find and countDocuments to the schema:
\* an Invalid Date does not cast, and the query rejects with a CastError.
castFails(query) ==
  \/ query.gte # <<>> /\ ~query.gte[1].valid
  \/ query.lte # <<>> /\ ~query.lte[1].valid

\* Whether the store selects a document under the predicate.
matches(doc, query) ==
  /\ doc.user = query.user
  /\ query.type # <<>> => doc.type = query.type[1]
  /\ query.category # <<>> => RegexTest(query.category[1], doc.category)
  /\ query.gte # <<>> => doc.date >= query.gte[1].time
  /\ query.lte # <<>> => doc.date <= query.lte[1].time
  /\ query.or # <<>> =>
       \/ RegexTest(query.or[1], doc.description)
       \/ RegexTest(query.or[1], doc.category)
       \/ RegexTest(query.or[1], doc.notes)

(***************************************************************************)
(* The store: find().sort().skip().limit(), countDocuments, aggregate      *)
(***************************************************************************)
Perms(S) ==
  {f \in [1..Cardinality(S) -> S] :
     \A i, j \in 1..Cardinality(S) : i # j => f[i] # f[j]}

\* sortOptions[sortBy] = sortOrder === 'desc' ? -1 : 1
sortDirection(sortOrder) == IF sortOrder = "desc" THEN -1 ELSE 1

IsSorted(seq, sortBy, dir) ==
  \A i, j \in 1..Len(seq) : i < j => dir * seq[i][sortBy] <= dir * seq[j][sortBy]

\* Mutant of sortedOrders: the result set is not sorted at all.
unsortedOrders(S, sortBy, dir) == Perms(S)

\* The orders the store may return a result set in: sorted on the key, the
\* order of documents with equal keys being the store's choice.
sortedOrders(S, sortBy, dir) == {seq \in Perms(S) : IsSorted(seq, sortBy, dir)}

\* .skip(skip).limit(limit) of an ordered result
skipLimit(seq, skip, limit) ==
  IF limit = 0 THEN SubSeq(seq, skip + 1, Len(seq))
  ELSE IF limit < 0 THEN SubSeq(seq, skip + 1, Min(skip - limit, Len(seq)))
  ELSE SubSeq(seq, skip + 1, Min(skip + limit, Len(seq)))

find(query) == {d \in transactions : matches(d, query)}

\* The store rejects a find whose skip is negative.
skipRejected(skip) == skip < 0

\* A negative limit asks for a single batch of that many documents; whether
\* the query layer passes it on or refuses it is not fixed by the source.
limitMayBeRejected(limit) == limit < 0

countDocuments(query) == Cardinality(find(query))

\* Mutant of ceilDiv: the quotient rounded down.
floorDiv(total, limit) == total \div limit

\* Math.ceil(total / limit), for limit >= 1
ceilDiv(total, limit) ==
  IF limit > 0 THEN (total + limit - 1) \div limit
  ELSE IF limit < 0 THEN 0 - (total \div (0 - limit))
  ELSE 0

\* What kind of number total / limit is: a division by zero gives Infinity,
\* or NaN for 0 / 0, which Math.ceil returns unchanged and the JSON of the
\* response writes as null (the 0 of ceilDiv stands for it).
quotientKind(total, limit) ==
  IF limit # 0 THEN "finite" ELSE IF total = 0 THEN "NaN" ELSE "Infinity"

\* a < b, where b is a number of the given kind
lessThan(a, b, kind) ==
  IF kind = "Infinity" THEN TRUE ELSE IF kind = "NaN" THEN FALSE ELSE a < b

RECURSIVE sumAmount(_)
\* $sum: '$amount' over a set of documents: face value, no exchangeRate
sumAmount(S) ==
  IF S = {} THEN 0
  ELSE LET d == CHOOSE x \in S : TRUE IN d.amount + sumAmount(S \ {d})

\* One $group output document; $avg is kept as the exact fraction.
groupOf(key, S) ==
  [_id |-> key, total |-> sumAmount(S), count |-> Cardinality(S),
   avgAmount |-> [num |-> sumAmount(S), den |-> Cardinality(S)]]

\* The $match stage of getUserSummary and getCategoryBreakdown: the date
\* term is there only when both dates are given.
matchStage(userId, type, startDate, endDate) ==
  [user |-> userId,
   type |-> type,
   date |-> IF startDate # <<>> /\ endDate # <<>>
              THEN <<[gte |-> NewDate(startDate), lte |-> NewDate(endDate)]>>
              ELSE <<>>]

\* An aggregation pipeline is not cast to the schema.  An Invalid Date goes
\* to the driver as it is: the driver either refuses it or sends it as time
\* 0, so both outcomes are kept.
hasInvalidDate(stage) ==
  stage.date # <<>> /\ (~stage.date[1].gte.valid \/ ~stage.date[1].lte.valid)

\* Mutant of stageMatches: the end of the date range is exclusive.
stageMatchesExclusive(doc, stage) ==
  /\ doc.user = stage.user
  /\ stage.type # <<>> => doc.type = stage.type[1]
  /\ stage.date # <<>> =>
       /\ doc.date >= stage.date[1].gte.time
       /\ doc.date < stage.date[1].lte.time

stageMatches(doc, stage) ==
  /\ doc.user = stage.user
  /\ stage.type # <<>> => doc.type = stage.type[1]
  /\ stage.date # <<>> =>
       /\ doc.date >= stage.date[1].gte.time
       /\ doc.date <= stage.date[1].lte.time

aggregateMatch(stage) == {d \in transactions : stageMatches(d, stage)}

\* transactionSchema.statics.getUserSummary: $match, then $group by type.
\* The groups come in no particular order: a set.
Transaction_getUserSummary(userId, startDate, endDate) ==
  LET matched == aggregateMatch(matchStage(userId, <<>>, startDate, endDate))
  IN {groupOf(t, {d \in matched : d.type = t}) : t \in {d.type : d \in matched}}

\* Mutant of Transaction_getCategoryBreakdown: $sort total ascending.
breakdownAscending(userId, type, startDate, endDate) ==
  LET matched == aggregateMatch(matchStage(userId, <<type>>, startDate, endDate))
      groups == {groupOf(c, {d \in matched : d.category = c}) :
                   c \in {d.category : d \in matched}}
  IN sortedOrders(groups, "total", 1)

\* transactionSchema.statics.getCategoryBreakdown: $match, $group by
\* category, $sort total descending.  The orders the store may answer with.
Transaction_getCategoryBreakdown(userId, type, startDate, endDate) ==
  LET matched == aggregateMatch(matchStage(userId, <<type>>, startDate, endDate))
      groups == {groupOf(c, {d \in matched : d.category = c}) :
                   c \in {d.category : d \in matched}}
  IN sortedOrders(groups, "total", -1)

\* Mutant of trendBefore: the $sort is descending.
trendAfter(a, b) ==
  LET rank(t) == IF t = "expense" THEN 1 ELSE 2
  IN \/ a.year > b.year
     \/ a.year = b.year /\ a.month > b.month
     \/ a.year = b.year /\ a.month = b.month /\ rank(a.type) > rank(b.type)

\* $sort on '_id.year', '_id.month', '_id.type', each ascending; the types
\* compare as strings, 'expense' before 'income'.
trendBefore(a, b) ==
  LET rank(t) == IF t = "expense" THEN 1 ELSE 2
  IN \/ a.year < b.year
     \/ a.year = b.year /\ a.month < b.month
     \/ a.year = b.year /\ a.month = b.month /\ rank(a.type) < rank(b.type)

trendKey(d) == [year |-> yearOf(d.date), month |-> monthOfYear(d.date), type |-> d.type]

\* Mutant of trendsStart: the years are counted back, not the months.
trendsStartYears(now, months) == setMonth(now, getMonth(now) - 2 * months)

\* startDate.setMonth(startDate.getMonth() - months)
trendsStart(now, months) == setMonth(now, getMonth(now) - months)

\* The $match stage of getMonthlyTrends
trendsMatch(userId, startDate) ==
  {d \in transactions : d.user = userId /\ d.date >= startDate}

\* transactionSchema.statics.getMonthlyTrends at the time now: $match,
\* $group by year, month and type, $sort.  The keys differ, so the order
\* is one.
Transaction_getMonthlyTrends(userId, months, now) ==
  LET matched == trendsMatch(userId, trendsStart(now, months))
      groups == {[_id |-> k, total |-> sumAmount({d \in matched : trendKey(d) = k}),
                  count |-> Cardinality({d \in matched : trendKey(d) = k})] :
                   k \in {trendKey(d) : d \in matched}}
  IN CHOOSE seq \in Perms(groups) :
       \A i, j \in 1..Len(seq) : i < j => trendBefore(seq[i]._id, seq[j]._id)

\* Mutant of formatSummary: balance and totalTransactions keep their initial 0.
formatSummaryNoTotals(summary) ==
  LET pick(t, f) ==
        IF \E item \in summary : item._id = t
          THEN (CHOOSE item \in summary : item._id = t)[f]
          ELSE 0
  IN [income |-> pick("income", "total"),
      expense |-> pick("expense", "total"),
      balance |-> 0,
      incomeCount |-> pick("income", "count"),
      expenseCount |-> pick("expense", "count"),
      totalTransactions |-> 0]

\* Mutant of formatSummary: the groups are read by position, the first as
\* income and the last as expense, whatever their _id.
formatSummaryByPosition(summary) ==
  LET first == IF summary = {} THEN [total |-> 0, count |-> 0]
               ELSE CHOOSE item \in summary :
                      \A other \in summary : item._id = "income" \/ other._id # "income"
      last == IF summary = {} THEN [total |-> 0, count |-> 0]
              ELSE CHOOSE item \in summary :
                     \A other \in summary : item._id = "expense" \/ other._id # "expense"
  IN [income |-> first.total,
      expense |-> last.total,
      balance |-> first.total - last.total,
      incomeCount |-> first.count,
      expenseCount |-> last.count,
      totalTransactions |-> first.count + last.count]

\* The formatter of getTransactionSummary, lines 250-271.  Each _id occurs
\* once among the groups, so the forEach leaves the one group's figures.
formatSummary(summary) ==
  LET pick(t, f) ==
        IF \E item \in summary : item._id = t
          THEN (CHOOSE item \in summary : item._id = t)[f]
          ELSE 0
      income == pick("income", "total")
      expense == pick("expense", "total")
      incomeCount == pick("income", "count")
      expenseCount == pick("expense", "count")
  IN [income |-> income,
      expense |-> expense,
      balance |-> income - expense,
      incomeCount |-> incomeCount,
      expenseCount |-> expenseCount,
      totalTransactions |-> incomeCount + expenseCount]

(***************************************************************************)
(* Requests                                                                *)
(***************************************************************************)
NoResp == [op |-> "none"]
NoWalk == [active |-> FALSE]

Opt(S) == {<<>>} \cup {<<v>> : v \in S}

\* const { page = 1, limit = 10, sortBy = 'date', sortOrder = 'desc' }
Default(p, d) == IF p = <<>> THEN d ELSE p[1]

NoFilter ==
  [page |-> <<>>, limit |-> <<>>, type |-> <<>>, category |-> <<>>,
   startDate |-> <<>>, endDate |-> <<>>, search |-> <<>>,
   sortBy |-> <<>>, sortOrder |-> <<>>]

\* List requests that vary the filters, on the default page and order,
\* two with a start date that is no date, and one whose search text has a
\* character that $regex reads as an operator.
FilterQueries ==
  {[NoFilter EXCEPT !.type = t, !.category = c, !.startDate = s,
                    !.endDate = e, !.search = x] :
     t \in Opt({"expense", "bogus"}),
     c \in {<<>>, <<"f", "o">>, <<"f", ".">>},
     s \in {<<>>, <<"2">>},
     e \in {<<>>, <<"2">>},
     x \in {<<>>, <<"a">>}}
  \cup {[NoFilter EXCEPT !.startDate = <<"x">>, !.type = t] : t \in Opt({"expense"})}
  \cup {[NoFilter EXCEPT !.search = <<"a", ".">>]}

\* List requests that vary the page, the page size and the order.
PagingQueries ==
  {[NoFilter EXCEPT !.page = <<p>>, !.limit = <<l>>, !.type = t,
                    !.sortBy = sb[1], !.sortOrder = sb[2]] :
     p \in 1..MaxPage, l \in 1..MaxLimit, t \in Opt({"expense"}),
     sb \in {<<<<>>, <<>>>>, <<<<"amount">>, <<"asc">>>>}}

ListQueries == FilterQueries \cup PagingQueries

\* <<startDate, endDate>> of the analytics requests
DateRanges ==
  {<<<<>>, <<>>>>, <<<<"1">>, <<"2">>>>, <<<<"2">>, <<"2">>>>,
   <<<<"2">>, <<>>>>, <<<<>>, <<"2">>>>, <<<<"x">>, <<"2">>>>}
TypeParams == {"income", "expense", "bogus"}

\* The months parameter of the trends request, and the days it arrives on
MonthsParams == Opt({0, 1})
Nows == {3, 4, 5, 22}

\* The ids a bulk delete may list: the ids of the store, one more id that is
\* well formed and that no document has, and 0 for a string that is no id.
BulkIds == 0..(MaxTx + 1)

\* The password field of the deleteAccount body
Passwords == Opt({"secret", "guess"})

NoReq == [op |-> "none"]

(***************************************************************************)
(* Handlers.  calls lists the store calls of the handler, each with the    *)
(* documents it returned or, for a write, the documents as they were when  *)
(* the write reached them.                                                 *)
(***************************************************************************)
Call(fn, docs) == [fn |-> fn, docs |-> docs]

ServerError(op, u, req, message) ==
  [op |-> op, user |-> u, req |-> req, status |-> 500, success |-> FALSE,
   message |-> message]

NotFound(op, u, req) ==
  [op |-> op, user |-> u, req |-> req, status |-> 404, success |-> FALSE,
   message |-> "Transaction not found"]

\* Mutant of ValidationFailed: the reply names no fields.
validationFailedNoFields(op, u, req, errors) ==
  [op |-> op, user |-> u, req |-> req, status |-> 400, success |-> FALSE,
   message |-> "Validation failed"]

\* error.name === 'ValidationError': status 400 with the errors by field
ValidationFailed(op, u, req, errors) ==
  [op |-> op, user |-> u, req |-> req, status |-> 400, success |-> FALSE,
   message |-> "Validation failed", errors |-> errors]

\* Mutant of skipOf: the offset counted from the requested page itself.
skipFromPage(page, limit) == page * limit

\* const skip = (parseInt(page) - 1) * parseInt(limit)
skipOf(page, limit) == (page - 1) * limit

\* The reply of getTransactions, lines 46-75, for one order of the result.
listResponse(u, q, ordered, total) ==
  LET page == Default(q.page, DefaultPage)
      limit == Default(q.limit, DefaultLimit)
      skip == skipOf(page, limit)
      totalPages == ceilDiv(total, limit)
  IN [op |-> "getTransactions", user |-> u, req |-> q, status |-> 200,
      success |-> TRUE,
      data |-> skipLimit(ordered, skip, limit),
      pagination |-> [currentPage |-> page,
                      totalPages |-> totalPages,
                      totalPagesKind |-> quotientKind(total, limit),
                      totalItems |-> total,
                      itemsPerPage |-> limit,
                      hasNextPage |-> lessThan(page, totalPages,
                                               quotientKind(total, limit)),
                      hasPrevPage |-> page > 1]]

\* The paging client after a reply: a request for page 1 with an explicit
\* page size opens a walk, the reply to the walk's next page extends it.
walkAfter(u, q, r) ==
  IF r.status # 200 THEN NoWalk
  ELSE IF walk.active
    THEN [walk EXCEPT !.next = @ + 1, !.pages = Append(@, r.data)]
  ELSE IF q.page = <<1>> /\ q.limit # <<>>
    THEN [active |-> TRUE, user |-> u, q |-> q, next |-> 2,
          totalPages |-> r.pagination.totalPages, pages |-> <<r.data>>]
  ELSE NoWalk

\* GET /api/transactions
getTransactions(u, q) ==
  /\ resp = NoResp
  /\ walk.active =>
       /\ u = walk.user
       /\ walk.next <= walk.totalPages
       /\ q = [walk.q EXCEPT !.page = <<walk.next>>]
  /\ LET query == buildQuery(u, q)
         dir == sortDirection(Default(q.sortOrder, "desc"))
         sortBy == Default(q.sortBy, "date")
         page == Default(q.page, DefaultPage)
         limit == Default(q.limit, DefaultLimit)
     IN IF castFails(query) \/ skipRejected(skipOf(page, limit))
          THEN /\ resp' = ServerError("getTransactions", u, q,
                                      "Server error fetching transactions")
               /\ calls' = <<Call("find", {}), Call("countDocuments", {})>>
               /\ walk' = NoWalk
          ELSE \/ \E ordered \in sortedOrders(find(query), sortBy, dir) :
                    LET r == listResponse(u, q, ordered, countDocuments(query))
                    IN /\ resp' = r
                       /\ calls' = <<Call("find", {r.data[i] : i \in 1..Len(r.data)}),
                                     Call("countDocuments", {})>>
                       /\ walk' = walkAfter(u, q, r)
               \/ /\ limitMayBeRejected(limit)
                  /\ resp' = ServerError("getTransactions", u, q,
                                         "Server error fetching transactions")
                  /\ calls' = <<Call("find", {}), Call("countDocuments", {})>>
                  /\ walk' = NoWalk
  /\ UNCHANGED <<transactions, nextId, users, inflight>>

\* The client stops paging.
EndWalk ==
  /\ resp = NoResp
  /\ walk.active
  /\ walk' = NoWalk
  /\ UNCHANGED <<transactions, nextId, resp, calls, users, inflight>>

\* The client takes the response.
Receive ==
  /\ resp # NoResp
  /\ resp' = NoResp
  /\ calls' = <<>>
  /\ UNCHANGED <<transactions, nextId, walk, users, inflight>>

Idle == resp = NoResp /\ ~walk.active

\* The list requests with page numbers and page sizes around zero
EdgeQueries ==
  {[NoFilter EXCEPT !.page = <<p>>, !.limit = <<l>>] :
     p \in (0 - 1)..MaxPage, l \in (0 - 1)..1}

\* The list requests taken one store read at a time
RaceQueries ==
  {NoFilter} \cup {[NoFilter EXCEPT !.page = <<p>>, !.limit = <<l>>] :
                     p \in 1..MaxPage, l \in 1..MaxLimit}

\* getTransactions up to the first of its two reads.  Promise.all issues
\* find and countDocuments together and the store serves them in either
\* order: the one served first is kept until the other is served.
getTransactionsFirstRead(u, q) ==
  /\ Idle
  /\ inflight = NoReq
  /\ LET query == buildQuery(u, q)
         dir == sortDirection(Default(q.sortOrder, "desc"))
         sortBy == Default(q.sortBy, "date")
     IN /\ ~castFails(query)
        /\ \/ \E ordered \in sortedOrders(find(query), sortBy, dir) :
                inflight' = [op |-> "getTransactions", user |-> u, req |-> q,
                             pc |-> "countDocuments", ordered |-> ordered]
           \/ inflight' = [op |-> "getTransactions", user |-> u, req |-> q,
                           pc |-> "find", total |-> countDocuments(query)]
  /\ UNCHANGED <<transactions, nextId, resp, calls, walk, users>>

\* The second read of getTransactions, and the response
getTransactionsSecondRead ==
  /\ Idle
  /\ inflight # NoReq
  /\ inflight.op = "getTransactions"
  /\ LET u == inflight.user
         q == inflight.req
         query == buildQuery(u, q)
         dir == sortDirection(Default(q.sortOrder, "desc"))
         sortBy == Default(q.sortBy, "date")
     IN \E r \in IF inflight.pc = "countDocuments"
                   THEN {listResponse(u, q, inflight.ordered, countDocuments(query))}
                   ELSE {listResponse(u, q, ordered, inflight.total) :
                           ordered \in sortedOrders(find(query), sortBy, dir)} :
          /\ resp' = r
          /\ calls' = <<Call("find", {r.data[i] : i \in 1..Len(r.data)}),
                        Call("countDocuments", {})>>
  /\ inflight' = NoReq
  /\ UNCHANGED <<transactions, nextId, walk, users>>

\* Mutant of findOne: the condition on the user is missing.
findOneOfAnyUser(id, userId) == {d \in transactions : d.id = id}

\* Transaction.findOne({ _id: id, user: userId })
findOne(id, userId) == {d \in transactions : d.id = id /\ d.user = userId}

findById(id) == {d \in transactions : d.id = id}

\* GET /api/transactions/:id
getTransaction(u, id) ==
  /\ Idle
  /\ LET found == findOne(id, u)
     IN /\ resp' = IF found = {}
                     THEN NotFound("getTransaction", u, [id |-> id])
                     ELSE [op |-> "getTransaction", user |-> u, req |-> [id |-> id],
                           status |-> 200, success |-> TRUE,
                           data |-> CHOOSE d \in found : TRUE]
        /\ calls' = <<Call("findOne", found)>>
  /\ UNCHANGED <<transactions, nextId, walk, users, inflight>>

\* Mutant of transactionData: { user: req.user.id, ...req.body }, the
\* body's user field wins.
transactionDataBodyLast(u, body, id) ==
  [id |-> id, user |-> Field(body, "user", u), type |-> body.type,
   amount |-> body.amount, category |-> body.category,
   description |-> body.description, notes |-> body.notes, date |-> body.date,
   isRecurring |-> Field(body, "isRecurring", FALSE),
   recurringDetails |-> Field(body, "recurringDetails", NoDetails)]

\* { ...req.body, user: req.user.id } as the schema keeps it
transactionData(u, body, id) ==
  [id |-> id, user |-> u, type |-> body.type, amount |-> body.amount,
   category |-> body.category, description |-> body.description,
   notes |-> body.notes, date |-> body.date,
   isRecurring |-> Field(body, "isRecurring", FALSE),
   recurringDetails |-> Field(body, "recurringDetails", NoDetails)]

\* POST /api/transactions
createTransaction(u, body) ==
  /\ Idle
  /\ nextId <= MaxTx
  /\ LET doc == transactionData(u, body, nextId)
         errors == validateDocument(doc)
     IN IF errors # {}
          THEN /\ resp' = ValidationFailed("createTransaction", u, body, errors)
               /\ calls' = <<Call("create", {})>>
               /\ UNCHANGED <<transactions, nextId>>
          ELSE /\ transactions' = transactions \cup {doc}
               /\ nextId' = nextId + 1
               /\ resp' = [op |-> "createTransaction", user |-> u, req |-> body,
                           status |-> 201, success |-> TRUE,
                           message |-> "Transaction created successfully",
                           data |-> doc]
               /\ calls' = <<Call("create", {doc})>>
  /\ UNCHANGED <<walk, users, inflight>>

\* The document after findByIdAndUpdate(id, body): the paths of the schema
\* that the body carries are set, the others stay.
applyUpdate(doc, body) ==
  [id |-> doc.id,
   user |-> Field(body, "user", doc.user),
   type |-> Field(body, "type", doc.type),
   amount |-> Field(body, "amount", doc.amount),
   category |-> Field(body, "category", doc.category),
   description |-> Field(body, "description", doc.description),
   notes |-> Field(body, "notes", doc.notes),
   date |-> Field(body, "date", doc.date),
   isRecurring |-> Field(body, "isRecurring", doc.isRecurring),
   recurringDetails |-> Field(body, "recurringDetails", doc.recurringDetails)]

\* PUT /api/transactions/:id
updateTransaction(u, id, body) ==
  /\ Idle
  /\ LET req == [id |-> id, body |-> body]
         owned == findOne(id, u)
         target == findById(id)
         errors == validateUpdate(body)
     IN IF owned = {}
          THEN /\ resp' = NotFound("updateTransaction", u, req)
               /\ calls' = <<Call("findOne", owned)>>
               /\ UNCHANGED transactions
          ELSE IF errors # {}
            THEN /\ resp' = ValidationFailed("updateTransaction", u, req, errors)
                 /\ calls' = <<Call("findOne", owned), Call("findByIdAndUpdate", {})>>
                 /\ UNCHANGED transactions
            ELSE LET old == CHOOSE d \in target : TRUE
                     new == applyUpdate(old, body)
                 IN /\ transactions' = (transactions \ {old}) \cup {new}
                    /\ resp' = [op |-> "updateTransaction", user |-> u, req |-> req,
                                status |-> 200, success |-> TRUE,
                                message |-> "Transaction updated successfully",
                                data |-> new]
                    /\ calls' = <<Call("findOne", owned),
                                  Call("findByIdAndUpdate", {old})>>
  /\ UNCHANGED <<nextId, walk, users, inflight>>

\* What findByIdAndUpdate returns when no document has the id
Null == [null |-> TRUE]

\* The bodies of the updates taken one store call at a time
RaceBodies == {B1, B2, BadAmount}

\* updateTransaction up to its ownership check: findOne({_id, user}), and
\* the 404 when it finds nothing.
updateTransactionFindOne(u, id, body) ==
  /\ Idle
  /\ inflight = NoReq
  /\ LET req == [id |-> id, body |-> body]
         owned == findOne(id, u)
     IN IF owned = {}
          THEN /\ resp' = NotFound("updateTransaction", u, req)
               /\ calls' = <<Call("findOne", owned)>>
               /\ UNCHANGED inflight
          ELSE /\ inflight' = [op |-> "updateTransaction", user |-> u, req |-> req,
                               pc |-> "findByIdAndUpdate", owned |-> owned]
               /\ UNCHANGED <<resp, calls>>
  /\ UNCHANGED <<transactions, nextId, walk, users>>

\* The rest of updateTransaction: findByIdAndUpdate(req.params.id, body)
\* selects by _id alone and returns null when no document has the id; the
\* handler answers 200 with whatever it returned.
updateTransactionFindByIdAndUpdate ==
  /\ Idle
  /\ inflight # NoReq
  /\ inflight.op = "updateTransaction"
  /\ LET u == inflight.user
         req == inflight.req
         target == findById(req.id)
         errors == validateUpdate(req.body)
     IN IF errors # {}
          THEN /\ resp' = ValidationFailed("updateTransaction", u, req, errors)
               /\ calls' = <<Call("findOne", inflight.owned),
                             Call("findByIdAndUpdate", {})>>
               /\ UNCHANGED transactions
          ELSE IF target = {}
            THEN /\ resp' = [op |-> "updateTransaction", user |-> u, req |-> req,
                             status |-> 200, success |-> TRUE,
                             message |-> "Transaction updated successfully",
                             data |-> Null]
                 /\ calls' = <<Call("findOne", inflight.owned),
                               Call("findByIdAndUpdate", {})>>
                 /\ UNCHANGED transactions
            ELSE LET old == CHOOSE d \in target : TRUE
                     new == applyUpdate(old, req.body)
                 IN /\ transactions' = (transactions \ {old}) \cup {new}
                    /\ resp' = [op |-> "updateTransaction", user |-> u, req |-> req,
                                status |-> 200, success |-> TRUE,
                                message |-> "Transaction updated successfully",
                                data |-> new]
                    /\ calls' = <<Call("findOne", inflight.owned),
                                  Call("findByIdAndUpdate", {old})>>
  /\ inflight' = NoReq
  /\ UNCHANGED <<nextId, walk, users>>

\* DELETE /api/transactions/:id
deleteTransaction(u, id) ==
  /\ Idle
  /\ LET req == [id |-> id]
         owned == findOne(id, u)
         target == findById(id)
     IN IF owned = {}
          THEN /\ resp' = NotFound("deleteTransaction", u, req)
               /\ calls' = <<Call("findOne", owned)>>
               /\ UNCHANGED transactions
          ELSE /\ transactions' = transactions \ target
               /\ resp' = [op |-> "deleteTransaction", user |-> u, req |-> req,
                           status |-> 200, success |-> TRUE,
                           message |-> "Transaction deleted successfully"]
               /\ calls' = <<Call("findOne", owned),
                             Call("findByIdAndDelete", target)>>
  /\ UNCHANGED <<nextId, walk, users, inflight>>

\* GET /api/transactions/analytics/summary
getTransactionSummary(u, startDate, endDate) ==
  /\ Idle
  /\ LET req == [startDate |-> startDate, endDate |-> endDate]
         stage == matchStage(u, <<>>, startDate, endDate)
         summary == Transaction_getUserSummary(u, startDate, endDate)
     IN \/ /\ resp' = [op |-> "getTransactionSummary", user |-> u, req |-> req,
                       status |-> 200, success |-> TRUE,
                       data |-> formatSummary(summary)]
           /\ calls' = <<Call("aggregate", aggregateMatch(stage))>>
        \/ /\ hasInvalidDate(stage)
           /\ resp' = ServerError("getTransactionSummary", u, req,
                                  "Server error fetching transaction summary")
           /\ calls' = <<Call("aggregate", {})>>
  /\ UNCHANGED <<transactions, nextId, walk, users, inflight>>

\* Mutant of typeAllowed: the type is not checked.
typeUnchecked(type) == TRUE

\* ['income', 'expense'].includes(type)
typeAllowed(type) == type \in TypeEnum

\* GET /api/transactions/analytics/categories/:type
getCategoryBreakdown(u, type, startDate, endDate) ==
  /\ Idle
  /\ LET req == [type |-> type, startDate |-> startDate, endDate |-> endDate]
         stage == matchStage(u, <<type>>, startDate, endDate)
     IN IF ~typeAllowed(type)
          THEN /\ resp' = [op |-> "getCategoryBreakdown", user |-> u, req |-> req,
                           status |-> 400, success |-> FALSE,
                           message |-> "Type must be either income or expense"]
               /\ calls' = <<>>
          ELSE \/ \E breakdown \in
                       Transaction_getCategoryBreakdown(u, type, startDate, endDate) :
                    /\ resp' = [op |-> "getCategoryBreakdown", user |-> u,
                                req |-> req, status |-> 200, success |-> TRUE,
                                data |-> breakdown]
                    /\ calls' = <<Call("aggregate", aggregateMatch(stage))>>
               \/ /\ hasInvalidDate(stage)
                  /\ resp' = ServerError("getCategoryBreakdown", u, req,
                                         "Server error fetching category breakdown")
                  /\ calls' = <<Call("aggregate", {})>>
  /\ UNCHANGED <<transactions, nextId, walk, users, inflight>>

\* GET /api/transactions/analytics/trends, arriving on the day now.
\* parseInt(months) is the number the parameter names.
getMonthlyTrends(u, months, now) ==
  /\ Idle
  /\ LET req == [months |-> months, now |-> now]
         n == Default(months, DefaultMonths)
     IN /\ resp' = [op |-> "getMonthlyTrends", user |-> u, req |-> req,
                    status |-> 200, success |-> TRUE,
                    data |-> Transaction_getMonthlyTrends(u, n, now)]
        /\ calls' = <<Call("aggregate", trendsMatch(u, trendsStart(now, n)))>>
  /\ UNCHANGED <<transactions, nextId, walk, users, inflight>>

\* Mutant of ObjectId_isValid: every id passes.
objectIdUnchecked(id) == TRUE

\* mongoose.Types.ObjectId.isValid(id); the id 0 is the string that is no id
ObjectId_isValid(id) == id >= 1

\* Mutant of deleteMany: the condition on the user is missing.
deleteManyOfAnyUser(ids, userId) == {d \in transactions : d.id \in ids}

\* Transaction.deleteMany({ _id: { $in: ids }, user: userId }): the documents
\* it removes
deleteMany(ids, userId) ==
  {d \in transactions : d.id \in ids /\ d.user = userId}

\* What the client's bulkDeleteTransactions(ids) sends as the body of
\* DELETE /transactions/bulk/delete: data: { ids }
api_bulkDeleteTransactions(ids) == [ids |-> ids]

\* DELETE /api/transactions/bulk/delete.  const { transactionIds } =
\* req.body: a body without that field gives undefined, which is no array.
bulkDeleteTransactions(u, body) ==
  /\ Idle
  /\ LET req == body
         transactionIds == Field(body, "transactionIds", {})
         validIds == {id \in transactionIds : ObjectId_isValid(id)}
         deleted == deleteMany(validIds, u)
     IN IF "transactionIds" \notin DOMAIN body \/ transactionIds = {}
          THEN /\ resp' = [op |-> "bulkDeleteTransactions", user |-> u, req |-> req,
                           status |-> 400, success |-> FALSE,
                           message |-> "Please provide an array of transaction IDs"]
               /\ calls' = <<>>
               /\ UNCHANGED transactions
          ELSE IF Cardinality(validIds) # Cardinality(transactionIds)
            THEN /\ resp' = [op |-> "bulkDeleteTransactions", user |-> u,
                             req |-> req, status |-> 400, success |-> FALSE,
                             message |-> "Some transaction IDs are invalid"]
                 /\ calls' = <<>>
                 /\ UNCHANGED transactions
            ELSE /\ transactions' = transactions \ deleted
                 /\ resp' = [op |-> "bulkDeleteTransactions", user |-> u,
                             req |-> req, status |-> 200, success |-> TRUE,
                             deletedCount |-> Cardinality(deleted)]
                 /\ calls' = <<Call("deleteMany", deleted)>>
  /\ UNCHANGED <<nextId, walk, users, inflight>>

(***************************************************************************)
(* Accounts: deleteAccount of userController.js.  Every route is behind    *)
(* the protect middleware, which serves a request only for a user that is  *)
(* registered.                                                             *)
(***************************************************************************)
protect(u) == u \in users

\* userSchema.methods.comparePassword: every account's password is "secret"
comparePassword(u, password) == password = "secret"

\* Transaction.deleteMany({ user: userId }): the documents it removes
deleteManyOfUser(userId) == {d \in transactions : d.user = userId}

accountResponse(u, req, status, message) ==
  [op |-> "deleteAccount", user |-> u, req |-> req, status |-> status,
   success |-> status = 200, message |-> message]

\* DELETE /api/users/account, served without another request in between
deleteAccount(u, password) ==
  /\ Idle
  /\ inflight = NoReq
  /\ LET req == [password |-> password]
         owned == deleteManyOfUser(u)
     IN IF password = <<>>
          THEN /\ resp' = accountResponse(u, req, 400,
                                          "Password is required to delete account")
               /\ calls' = <<>>
               /\ UNCHANGED <<transactions, users>>
          ELSE IF ~comparePassword(u, password[1])
            THEN /\ resp' = accountResponse(u, req, 400, "Password is incorrect")
                 /\ calls' = <<Call("findById", {})>>
                 /\ UNCHANGED <<transactions, users>>
            ELSE /\ transactions' = transactions \ owned
                 /\ users' = users \ {u}
                 /\ resp' = accountResponse(u, req, 200,
                                            "Account deleted successfully")
                 /\ calls' = <<Call("findById", {}), Call("deleteMany", owned),
                               Call("findByIdAndDelete", {})>>
  /\ UNCHANGED <<nextId, walk, inflight>>

\* deleteAccount up to its first write: the password is there and matches,
\* and the handler waits for Transaction.deleteMany.
deleteAccountVerified(u, password) ==
  /\ Idle
  /\ inflight = NoReq
  /\ password # <<>>
  /\ comparePassword(u, password[1])
  /\ inflight' = [op |-> "deleteAccount", user |-> u,
                  req |-> [password |-> password], pc |-> "deleteMany"]
  /\ UNCHANGED <<transactions, nextId, resp, calls, walk, users>>

\* await Transaction.deleteMany({ user: req.user.id })
deleteAccountTransactions ==
  /\ Idle
  /\ inflight # NoReq
  /\ inflight.pc = "deleteMany"
  /\ transactions' = transactions \ deleteManyOfUser(inflight.user)
  /\ inflight' = [op |-> "deleteAccount", user |-> inflight.user,
                  req |-> inflight.req, pc |-> "findByIdAndDelete",
                  removed |-> deleteManyOfUser(inflight.user)]
  /\ UNCHANGED <<nextId, resp, calls, walk, users>>

\* await User.findByIdAndDelete(req.user.id), and the response
deleteAccountUser ==
  /\ Idle
  /\ inflight # NoReq
  /\ inflight.pc = "findByIdAndDelete"
  /\ users' = users \ {inflight.user}
  /\ resp' = accountResponse(inflight.user, inflight.req, 200,
                             "Account deleted successfully")
  /\ calls' = <<Call("findByIdAndDelete", {})>>
  /\ inflight' = NoReq
  /\ UNCHANGED <<transactions, nextId, walk>>

\* The store rejects User.findById: the catch answers 500 before any write.
deleteAccountFindByIdFails(u, password) ==
  /\ Idle
  /\ inflight = NoReq
  /\ password # <<>>
  /\ resp' = ServerError("deleteAccount", u, [password |-> password],
                         "Server error deleting account")
  /\ calls' = <<Call("findById", {})>>
  /\ UNCHANGED <<transactions, nextId, walk, users, inflight>>

\* The store rejects the write the handler waits for, and the catch answers
\* 500.  A deleteMany that fails has removed some of the documents it
\* matched, none or all included; when findByIdAndDelete fails, deleteMany
\* has already removed them all.  Nothing is put back.
deleteAccountWriteFails ==
  /\ Idle
  /\ inflight # NoReq
  /\ inflight.op = "deleteAccount"
  /\ \/ /\ inflight.pc = "deleteMany"
        /\ \E gone \in SUBSET deleteManyOfUser(inflight.user) :
              /\ transactions' = transactions \ gone
              /\ calls' = <<Call("findById", {}), Call("deleteMany", gone)>>
     \/ /\ inflight.pc = "findByIdAndDelete"
        /\ UNCHANGED transactions
        /\ calls' = <<Call("findById", {}), Call("deleteMany", inflight.removed),
                      Call("findByIdAndDelete", {})>>
  /\ resp' = ServerError("deleteAccount", inflight.user, inflight.req,
                         "Server error deleting account")
  /\ inflight' = NoReq
  /\ UNCHANGED <<nextId, walk, users>>

(***************************************************************************)
(* The state machine                                                       *)
(***************************************************************************)
Init ==
  /\ transactions = {}
  /\ nextId = 1
  /\ resp = NoResp
  /\ calls = <<>>
  /\ walk = NoWalk
  /\ users = Users
  /\ inflight = NoReq

\* A request is served only once the previous response is taken; the guard
\* stands before the choice of the request's parameters.
Next ==
  \/ resp = NoResp /\ \E u \in Users : protect(u) /\ \E q \in ListQueries :
                        getTransactions(u, q)
  \/ Idle /\ \E u \in Users : protect(u) /\ \E id \in Ids : getTransaction(u, id)
  \/ Idle /\ \E u \in Users : protect(u) /\ \E body \in Bodies :
               createTransaction(u, body)
  \/ Idle /\ \E u \in Users : protect(u) /\ \E id \in Ids, body \in Bodies :
               updateTransaction(u, id, body)
  \/ Idle /\ \E u \in Users : protect(u) /\ \E id \in Ids : deleteTransaction(u, id)
  \/ Idle /\ \E u \in Users : protect(u) /\ \E r \in DateRanges :
               getTransactionSummary(u, r[1], r[2])
  \/ Idle /\ \E u \in Users : protect(u) /\ \E t \in TypeParams, r \in DateRanges :
               getCategoryBreakdown(u, t, r[1], r[2])
  \/ Idle /\ \E u \in Users : protect(u) /\ \E m \in MonthsParams, now \in Nows :
               getMonthlyTrends(u, m, now)
  \/ Idle /\ \E u \in Users : protect(u) /\ \E ids \in SUBSET BulkIds :
               bulkDeleteTransactions(u, [transactionIds |-> ids])
  \/ Idle /\ \E u \in Users : protect(u) /\ \E password \in Passwords :
               deleteAccount(u, password)
  \/ EndWalk
  \/ Receive

Spec == Init /\ [][Next]_vars

\* The requests with deleteAccount one store call at a time: between its
\* calls the server serves whatever else arrives.
NextConc ==
  \/ Next
  \/ Idle /\ \E u \in Users : protect(u) /\ \E password \in Passwords :
               deleteAccountVerified(u, password)
  \/ deleteAccountTransactions
  \/ deleteAccountUser

SpecConc == Init /\ [][NextConc]_vars

\* The account deletion one store call at a time, each of which the store
\* may reject, with the creates of the users' transactions.
NextAccountFailure ==
  \/ Idle /\ \E u \in Users : protect(u) /\ \E body \in RaceBodies :
               createTransaction(u, body)
  \/ Idle /\ \E u \in Users : protect(u) /\ \E password \in Passwords :
               deleteAccount(u, password)
  \/ Idle /\ \E u \in Users : protect(u) /\ \E password \in Passwords :
               deleteAccountFindByIdFails(u, password)
  \/ Idle /\ \E u \in Users : protect(u) /\ \E password \in Passwords :
               deleteAccountVerified(u, password)
  \/ deleteAccountTransactions
  \/ deleteAccountUser
  \/ deleteAccountWriteFails
  \/ Receive

SpecAccountFailure == Init /\ [][NextAccountFailure]_vars

\* The list requests of every page number and page size, with the creates
\* that fill the store.
NextPaging ==
  \/ Idle /\ \E u \in Users : protect(u) /\ \E body \in RaceBodies :
               createTransaction(u, body)
  \/ resp = NoResp /\ \E u \in Users : protect(u) /\ \E q \in EdgeQueries :
                        getTransactions(u, q)
  \/ EndWalk
  \/ Receive

SpecPaging == Init /\ [][NextPaging]_vars

\* The bulk deletes as the client's API module sends them, with the creates
\* that fill the store.
NextClient ==
  \/ Idle /\ \E u \in Users : protect(u) /\ \E body \in RaceBodies :
               createTransaction(u, body)
  \/ Idle /\ \E u \in Users : protect(u) /\ \E ids \in SUBSET BulkIds :
               bulkDeleteTransactions(u, api_bulkDeleteTransactions(ids))
  \/ Receive

SpecClient == Init /\ [][NextClient]_vars

\* The requests with getTransactions one store read at a time, and the
\* creates and deletes that can come between its reads.
NextListRace ==
  \/ Idle /\ \E u \in Users : protect(u) /\ \E body \in Bodies :
               createTransaction(u, body)
  \/ Idle /\ \E u \in Users : protect(u) /\ \E id \in Ids : deleteTransaction(u, id)
  \/ Idle /\ \E u \in Users : protect(u) /\ \E q \in RaceQueries :
               getTransactionsFirstRead(u, q)
  \/ getTransactionsSecondRead
  \/ Receive

SpecListRace == Init /\ [][NextListRace]_vars

\* The requests with updateTransaction one store call at a time, and the
\* creates and deletes that can come between its calls.
NextUpdateRace ==
  \/ Idle /\ \E u \in Users : protect(u) /\ \E body \in RaceBodies :
               createTransaction(u, body)
  \/ Idle /\ \E u \in Users : protect(u) /\ \E id \in Ids, body \in RaceBodies :
               updateTransactionFindOne(u, id, body)
  \/ updateTransactionFindByIdAndUpdate
  \/ Idle /\ \E u \in Users : protect(u) /\ \E id \in Ids : deleteTransaction(u, id)
  \/ Idle /\ \E u \in Users : protect(u) /\ \E ids \in SUBSET BulkIds :
               bulkDeleteTransactions(u, [transactionIds |-> ids])
  \/ Receive

SpecUpdateRace == Init /\ [][NextUpdateRace]_vars

\* The requests that create and update recurring transactions.
NextRecurring ==
  \/ Idle /\ \E u \in Users : protect(u) /\ \E body \in RecurringBodies :
               createTransaction(u, body)
  \/ Idle /\ \E u \in Users : protect(u) /\ \E id \in Ids, body \in RecurringUpdates :
               updateTransaction(u, id, body)
  \/ Receive

SpecRecurring == Init /\ [][NextRecurring]_vars

(***************************************************************************)
(* Properties                                                              *)
(***************************************************************************)
Range(seq) == {seq[i] : i \in 1..Len(seq)}

\* The transaction documents a response carries in its data.
returnedDocs(r) ==
  IF r.status \notin {200, 201} THEN {}
  ELSE IF r.op = "getTransactions" THEN Range(r.data)
  ELSE IF r.op \in {"getTransaction", "updateTransaction", "createTransaction"}
    THEN {r.data}
  ELSE {}

\* The documents the store calls of the request read or wrote.
touchedDocs == UNION {calls[i].docs : i \in 1..Len(calls)}

\* C1: per-user isolation.  Every transaction a handler returns, and every
\* transaction its store calls read, update or delete, has the requesting
\* user in its user field.
C1_PerUserIsolation ==
  resp # NoResp =>
    /\ \A d \in returnedDocs(resp) : d.user = resp.user
    /\ \A d \in touchedDocs : d.user = resp.user

\* C2: the owner of a transaction is immutable.  A step that creates a
\* transaction gives it the requester as its user, and no step changes the
\* user of a transaction that exists before and after it.
C2_OwnerImmutable ==
  [][/\ \A d \in transactions : \A e \in transactions' :
          e.id = d.id => e.user = d.user
     /\ \A e \in transactions' :
          (\A d \in transactions : d.id # e.id) => e.user = resp'.user]_vars

\* Case-insensitive substring: the match the filters category and search
\* are specified to make.
ContainsIgnoreCase(p, s) ==
  \E i \in 1..(Len(s) - Len(p) + 1) :
    \A j \in 1..Len(p) : Lower(p[j]) = Lower(s[i + j - 1])

\* A record satisfies the filters a list request supplies: the type when it
\* is income or expense, the category as a substring, the inclusive date
\* range, the search text as a substring of description, category or notes.
satisfiesFilters(d, q) ==
  /\ (q.type # <<>> /\ q.type[1] \in {"income", "expense"}) => d.type = q.type[1]
  /\ q.category # <<>> => ContainsIgnoreCase(q.category, d.category)
  /\ q.startDate # <<>> => d.date >= NewDate(q.startDate).time
  /\ q.endDate # <<>> => d.date <= NewDate(q.endDate).time
  /\ q.search # <<>> =>
       \/ ContainsIgnoreCase(q.search, d.description)
       \/ ContainsIgnoreCase(q.search, d.category)
       \/ ContainsIgnoreCase(q.search, d.notes)

\* C3: every record a successful list response returns satisfies every
\* filter the request supplies and belongs to the requesting user.
C3_ReturnedSatisfyFilters ==
  (resp.op = "getTransactions" /\ resp.status = 200) =>
    \A d \in Range(resp.data) :
      d.user = resp.user /\ satisfiesFilters(d, resp.req)

RECURSIVE Concat(_)
Concat(pages) ==
  IF pages = <<>> THEN <<>> ELSE Head(pages) \o Concat(Tail(pages))

\* The full result set of a list request, by the filters it supplies.
predicated(u, q) == {d \in transactions : d.user = u /\ satisfiesFilters(d, q)}

\* A sequence of records is in the order the request asks for.
inRequestedOrder(seq, q) ==
  LET key == Default(q.sortBy, "date")
  IN \A i, j \in 1..Len(seq) :
       i < j => IF Default(q.sortOrder, "desc") = "desc"
                  THEN seq[i][key] >= seq[j][key]
                  ELSE seq[i][key] <= seq[j][key]

\* The client has fetched pages 1..totalPages (page 1 alone when there is
\* no page) of one request against unchanged store contents.
walkDone == walk.active /\ walk.next > walk.totalPages

\* No two records of the result set share the sort key.
stableSortKey(u, q) ==
  \A d, e \in predicated(u, q) :
    d # e => d[Default(q.sortBy, "date")] # e[Default(q.sortBy, "date")]

\* C4: with a stable sort key, the pages 1..totalPages of a list request
\* hold every record of the predicated result set exactly once, each page
\* is disjoint from the next, and the pages in sequence are in the global
\* sort order.
C4_PagesPartitionResult ==
  (walkDone /\ stableSortKey(walk.user, walk.q)) =>
    LET flat == Concat(walk.pages)
    IN /\ Range(flat) = predicated(walk.user, walk.q)
       /\ Len(flat) = Cardinality(predicated(walk.user, walk.q))
       /\ inRequestedOrder(flat, walk.q)
       /\ \A n \in 1..(Len(walk.pages) - 1) :
            Range(walk.pages[n]) \cap Range(walk.pages[n + 1]) = {}

\* Two non-empty pages fetched, over a result set with a stable sort key.
C4_Witness ==
  /\ walkDone
  /\ stableSortKey(walk.user, walk.q)
  /\ Len(walk.pages) >= 2
  /\ \A n \in 1..Len(walk.pages) : walk.pages[n] # <<>>

\* C5: the pagination of a successful list response: totalItems is the
\* number of records the predicate matches, totalPages is the ceiling of
\* totalItems / pageSize, hasNextPage holds exactly when a page after the
\* requested one exists, hasPrevPage exactly when page > 1.
C5_PaginationMetadata ==
  (resp.op = "getTransactions" /\ resp.status = 200) =>
    LET p == resp.pagination
        page == Default(resp.req.page, DefaultPage)
        pageSize == Default(resp.req.limit, DefaultLimit)
        total == Cardinality({d \in transactions :
                                matches(d, buildQuery(resp.user, resp.req))})
    IN /\ p.totalItems = total
       /\ p.totalPages * pageSize >= total
       /\ (p.totalPages - 1) * pageSize < total
       /\ p.hasNextPage <=> page < p.totalPages
       /\ p.hasNextPage <=> total > page * pageSize
       /\ p.hasPrevPage <=> page > 1

\* Page 1 of two, one record a page.
C5_Witness ==
  /\ resp.op = "getTransactions"
  /\ resp.status = 200
  /\ resp.pagination.totalItems = 2
  /\ resp.pagination.totalPages = 2
  /\ resp.pagination.hasNextPage
  /\ ~resp.pagination.hasPrevPage

RECURSIVE Total(_)
\* The sum of the amounts of a set of records, at face value.
Total(S) ==
  IF S = {} THEN 0
  ELSE LET d == CHOOSE x \in S : TRUE IN d.amount + Total(S \ {d})

\* An analytics request's dates restrict the records only when both are
\* given; the range is then inclusive.
wellFormedRange(req) ==
  (req.startDate # <<>> /\ req.endDate # <<>>) =>
    (NewDate(req.startDate).valid /\ NewDate(req.endDate).valid)

\* The user's records of a type inside the request's date range.
selected(u, type, req) ==
  {d \in transactions :
     /\ d.user = u
     /\ d.type = type
     /\ (req.startDate # <<>> /\ req.endDate # <<>>) =>
          /\ NewDate(req.startDate).time <= d.date
          /\ d.date <= NewDate(req.endDate).time}

\* C6: every Summary response has balance = income - expense and
\* totalTransactions = incomeCount + expenseCount, whatever the store
\* contents and the date range.
C6_SummaryBalance ==
  (resp.op = "getTransactionSummary" /\ resp.status = 200) =>
    /\ resp.data.balance = resp.data.income - resp.data.expense
    /\ resp.data.totalTransactions = resp.data.incomeCount + resp.data.expenseCount

\* A Summary with income and expense, and the balance between them.
C6_Witness ==
  /\ resp.op = "getTransactionSummary"
  /\ resp.status = 200
  /\ resp.data.income > 0
  /\ resp.data.expense > 0
  /\ resp.data.balance # 0
  /\ resp.data.totalTransactions = 2

\* C7: a type group absent from the aggregation output leaves its fields
\* zero and raises no error: the Summary of well-formed dates succeeds, with
\* income = incomeCount = 0 when no income record is selected, the same for
\* expense, and all six fields zero when no record is selected.
C7_AbsentGroupIsZero ==
  (resp.op = "getTransactionSummary" /\ wellFormedRange(resp.req)) =>
    /\ resp.status = 200
    /\ resp.success
    /\ selected(resp.user, "income", resp.req) = {} =>
         (resp.data.income = 0 /\ resp.data.incomeCount = 0)
    /\ selected(resp.user, "expense", resp.req) = {} =>
         (resp.data.expense = 0 /\ resp.data.expenseCount = 0)
    /\ (\A d \in transactions : d.user # resp.user) =>
         resp.data = [income |-> 0, expense |-> 0, balance |-> 0,
                      incomeCount |-> 0, expenseCount |-> 0,
                      totalTransactions |-> 0]

\* The Summary of a user who has expenses and no income.
C7_Witness ==
  /\ resp.op = "getTransactionSummary"
  /\ resp.status = 200
  /\ \E d \in transactions : d.user = resp.user
  /\ \A d \in transactions : d.user = resp.user => d.type = "expense"
  /\ resp.data.income = 0
  /\ resp.data.incomeCount = 0
  /\ resp.data.expense > 0

\* C8: for a Summary request with both dates, income is the sum of the
\* amounts of the requester's income records with startDate <= date <=
\* endDate and incomeCount their number, and likewise for expense.
C8_SummaryTotals ==
  (/\ resp.op = "getTransactionSummary"
   /\ resp.status = 200
   /\ resp.req.startDate # <<>>
   /\ resp.req.endDate # <<>>
   /\ wellFormedRange(resp.req)) =>
    /\ resp.data.income = Total(selected(resp.user, "income", resp.req))
    /\ resp.data.incomeCount = Cardinality(selected(resp.user, "income", resp.req))
    /\ resp.data.expense = Total(selected(resp.user, "expense", resp.req))
    /\ resp.data.expenseCount = Cardinality(selected(resp.user, "expense", resp.req))

\* The scenario: T1 (expense, Food, 50, day 1) and T2 (income, Salary, 1000,
\* day 2), and the Summary of days 1 to 2.
C8_Witness ==
  /\ resp.op = "getTransactionSummary"
  /\ resp.status = 200
  /\ resp.req = [startDate |-> <<"1">>, endDate |-> <<"2">>]
  /\ {[type |-> d.type, amount |-> d.amount, category |-> d.category,
       date |-> d.date] : d \in {e \in transactions : e.user = resp.user}}
       = {[type |-> "expense", amount |-> 50, category |-> Food, date |-> 1],
          [type |-> "income", amount |-> 1000, category |-> Salary, date |-> 2]}
  /\ resp.data = [income |-> 1000, expense |-> 50, balance |-> 950,
                  incomeCount |-> 1, expenseCount |-> 1, totalTransactions |-> 2]

\* C9: the category breakdown of a type is in descending order of total,
\* and every category among the requester's selected records of that type
\* appears exactly once, with the sum of its amounts as total and their
\* number as count.
C9_CategoryBreakdown ==
  (/\ resp.op = "getCategoryBreakdown"
   /\ resp.status = 200
   /\ wellFormedRange(resp.req)) =>
    LET sel == selected(resp.user, resp.req.type, resp.req)
        data == resp.data
    IN /\ \A i, j \in 1..Len(data) : i < j => data[i].total >= data[j].total
       /\ {data[i]._id : i \in 1..Len(data)} = {d.category : d \in sel}
       /\ Len(data) = Cardinality({d.category : d \in sel})
       /\ \A i \in 1..Len(data) :
            /\ data[i].total = Total({d \in sel : d.category = data[i]._id})
            /\ data[i].count = Cardinality({d \in sel : d.category = data[i]._id})

\* A breakdown of two categories with different totals.
C9_Witness ==
  /\ resp.op = "getCategoryBreakdown"
  /\ resp.status = 200
  /\ Len(resp.data) = 2
  /\ resp.data[1].total > resp.data[2].total

\* C10: a category breakdown whose type is neither income nor expense is
\* rejected with status 400 and success false, and the handler makes no
\* store call.
C10_BreakdownRejectsType ==
  (resp.op = "getCategoryBreakdown" /\ resp.req.type \notin {"income", "expense"}) =>
    /\ resp.status = 400
    /\ ~resp.success
    /\ calls = <<>>

\* A breakdown request of another type, rejected.
C10_Witness ==
  /\ resp.op = "getCategoryBreakdown"
  /\ resp.req.type = "bogus"
  /\ resp.status = 400
  /\ \E d \in transactions : d.user = resp.user

\* The day n months before now: the same day of the month n months earlier,
\* or that month's last day when it is shorter.
monthsBefore(now, n) ==
  LET m == monthOf(now) - n
  IN firstDay(m) + Min(getDate(now), monthLength(m)) - 1

\* The requester's transactions dated from the given day on.
datedFrom(u, from) == {d \in transactions : d.user = u /\ d.date >= from}

\* C11: the monthly trend for months = N aggregates only the requester's
\* transactions with date >= now - N months: every transaction the
\* aggregation reads is one of them, and every group's total and count are
\* those of some of them with the group's year, month and type.  When the
\* months parameter is absent the trend is that of N = 12.
C11_TrendsWindow ==
  resp.op = "getMonthlyTrends" =>
    LET n == IF resp.req.months = <<>> THEN 12 ELSE resp.req.months[1]
        eligible == datedFrom(resp.user, monthsBefore(resp.req.now, n))
        data == resp.data
    IN /\ resp.status = 200
       /\ touchedDocs \subseteq eligible
       /\ \A i \in 1..Len(data) :
            \E S \in SUBSET eligible :
              /\ S # {}
              /\ \A d \in S : /\ yearOf(d.date) = data[i]._id.year
                              /\ monthOfYear(d.date) = data[i]._id.month
                              /\ d.type = data[i]._id.type
              /\ data[i].total = Total(S)
              /\ data[i].count = Cardinality(S)
       /\ resp.req.months = <<>> =>
            data = Transaction_getMonthlyTrends(resp.user, 12, resp.req.now)

\* A trend of one month back that leaves out an older transaction of the
\* requester and reports a younger one.
C11_Witness ==
  /\ resp.op = "getMonthlyTrends"
  /\ resp.status = 200
  /\ resp.req.months = <<1>>
  /\ \E d \in transactions :
       d.user = resp.user /\ d.date < monthsBefore(resp.req.now, 1)
  /\ Len(resp.data) >= 1

\* A step that serves a bulk delete.
bulkDeleteStep == resp = NoResp /\ resp'.op = "bulkDeleteTransactions"

\* The stored transactions a bulk delete request lists and its requester owns.
listedOwned(r) ==
  {d \in transactions : d.id \in r.req.transactionIds /\ d.user = r.user}

\* C12: a bulk delete removes nothing but the listed transactions that the
\* requester owns: a listed transaction of another user and every unlisted
\* transaction stay.  A successful one removes exactly those, and its
\* deletedCount is the number of transactions removed.
C12_BulkDeleteFrame ==
  [][bulkDeleteStep =>
       /\ transactions' \subseteq transactions
       /\ (transactions \ listedOwned(resp')) \subseteq transactions'
       /\ resp'.status = 200 =>
            /\ transactions' = transactions \ listedOwned(resp')
            /\ resp'.deletedCount =
                 Cardinality(transactions) - Cardinality(transactions')]_vars

\* A bulk delete that removed a transaction of the requester and left a
\* listed transaction of another user in the store.
C12_Witness ==
  /\ resp.op = "bulkDeleteTransactions"
  /\ resp.status = 200
  /\ resp.deletedCount >= 1
  /\ \E d \in transactions :
       d.id \in resp.req.transactionIds /\ d.user # resp.user

\* A bulk delete of three ids: two of transactions the requester owns, and
\* a third that is the id of no stored transaction.
twoOwnedOneInvalid(r) ==
  /\ Cardinality(r.req.transactionIds) = 3
  /\ Cardinality(listedOwned(r)) = 2
  /\ \E id \in r.req.transactionIds : \A d \in transactions : d.id # id

byIdStep ==
  /\ resp = NoResp
  /\ resp'.op \in {"getTransaction", "updateTransaction", "deleteTransaction"}

\* C14: getTransaction, updateTransaction and deleteTransaction answer an
\* id the requester does not own in one way, whether another user's
\* transaction has the id or none has: status 404 and the body of "not
\* found", nothing in it depending on the store, and the store is left as
\* it was.
C14_NotOwnedIsNotFound ==
  [][(byIdStep /\ \A d \in transactions :
                    d.id = resp'.req.id => d.user # resp'.user) =>
       /\ DOMAIN resp' = {"op", "user", "req", "status", "success", "message"}
       /\ resp'.status = 404
       /\ resp'.success = FALSE
       /\ resp'.message = "Transaction not found"
       /\ transactions' = transactions]_vars

\* A request on the id of another user's transaction, answered 404 with
\* the transaction still stored.
C14_Witness ==
  /\ resp.op \in {"getTransaction", "updateTransaction", "deleteTransaction"}
  /\ resp.status = 404
  /\ \E d \in transactions : d.id = resp.req.id /\ d.user # resp.user

\* C15: referential integrity under account deletion.  In every reachable
\* state, with the requests of a user served between the store calls of
\* that user's deleteAccount, the user of every stored transaction is a
\* registered user.
C15_ReferentialIntegrity ==
  \A d \in transactions : d.user \in users

\* The amount a create or update request carries.
amountOf(r) ==
  IF r.op = "createTransaction" THEN r.req.amount ELSE r.req.body.amount

amountInRange(a) == 0 < a /\ a <= 1000000

validationFailureStep ==
  /\ resp = NoResp
  /\ resp'.op \in {"createTransaction", "updateTransaction"}
  /\ ~amountInRange(amountOf(resp'))
  /\ resp'.op = "updateTransaction" =>
       \E d \in transactions : d.id = resp'.req.id /\ d.user = resp'.user

C18_MalformedDateRejected ==
  (/\ resp.op = "getTransactions"
   /\ \/ resp.req.startDate # <<>> /\ ~NewDate(resp.req.startDate).valid
      \/ resp.req.endDate # <<>> /\ ~NewDate(resp.req.endDate).valid) =>
    resp.status \in 400..499

\* The list request without its type parameter.
withoutType(q) == [q EXCEPT !.type = <<>>]

\* C19: a list request whose type is neither income nor expense is answered
\* as the same request with no type: no error because of the type, the
\* same totalItems, and the same result set.
C19_UnknownTypeIgnored ==
  (/\ resp.op = "getTransactions"
   /\ resp.req.type # <<>>
   /\ resp.req.type[1] \notin {"income", "expense"}) =>
    LET plain == buildQuery(resp.user, withoutType(resp.req))
    IN IF castFails(plain)
         THEN resp.status = 500
         ELSE /\ resp.status = 200
              /\ resp.pagination.totalItems = countDocuments(plain)
              /\ Range(resp.data) = find(plain)

\* A list request of type "bogus" that returned transactions of both types.
C19_Witness ==
  /\ resp.op = "getTransactions"
  /\ resp.req.type = <<"bogus">>
  /\ resp.status = 200
  /\ \E d, e \in Range(resp.data) : d.type = "income" /\ e.type = "expense"

\* A text without the characters $regex reads as operators.
isLiteral(p) == \A i \in 1..Len(p) : p[i] # "."

\* C20: on the default page, a list request returns exactly the
\* requester's records that satisfy every supplied filter, the search text
\* being a case-insensitive substring of the description, the category or
\* the notes; an empty search text imposes no constraint.  (The category
\* filter is taken literal here, so that only the search decides.)
C20_SearchIsSubstring ==
  (/\ resp.op = "getTransactions"
   /\ resp.status = 200
   /\ resp.req.page = <<>>
   /\ resp.req.limit = <<>>
   /\ isLiteral(resp.req.category)) =>
    Range(resp.data) = predicated(resp.user, resp.req)

\* The records a trend group of key k is made of, among those the
\* aggregation read.
trendMembers(k) ==
  {d \in touchedDocs : /\ yearOf(d.date) = k.year
                       /\ monthOfYear(d.date) = k.month
                       /\ d.type = k.type}

\* (year, month, type) in ascending order, 'expense' before 'income'
keyAscending(a, b) ==
  \/ a.year < b.year
  \/ a.year = b.year /\ a.month < b.month
  \/ a.year = b.year /\ a.month = b.month /\ a.type = "expense" /\ b.type = "income"

C22_RecurringHasDetails ==
  \A d \in transactions :
    d.isRecurring =>
      /\ d.recurringDetails.frequency # <<>>
      /\ d.recurringDetails.frequency[1] \in {"daily", "weekly", "monthly", "yearly"}
      /\ d.recurringDetails.nextDate # <<>>

\* A step that serves one of the read operations.
readStep ==
  /\ resp = NoResp
  /\ resp'.op \in {"getTransactions", "getTransaction", "getTransactionSummary",
                   "getCategoryBreakdown", "getMonthlyTrends"}

\* The replies the request of the reply r can get from the store as it is.
\* The list and the category breakdown come in an order the store chooses
\* among the sorted ones; the other replies are computed from the store by
\* expressions of one value.
answers(r) ==
  IF r.op = "getTransactions" /\ r.status = 200
    THEN LET query == buildQuery(r.user, r.req)
         IN {listResponse(r.user, r.req, o, countDocuments(query)) :
               o \in sortedOrders(find(query), Default(r.req.sortBy, "date"),
                                  sortDirection(Default(r.req.sortOrder, "desc")))}
  ELSE IF r.op = "getCategoryBreakdown" /\ r.status = 200
    THEN {[r EXCEPT !.data = b] :
            b \in Transaction_getCategoryBreakdown(r.user, r.req.type,
                                                   r.req.startDate, r.req.endDate)}
  ELSE {r}

\* No two records of the list's result set, and no two categories of the
\* breakdown, share the value they are sorted on.
tieFree(r) ==
  IF r.op = "getTransactions" /\ r.status = 200
    THEN \A d, e \in find(buildQuery(r.user, r.req)) :
           d # e => d[Default(r.req.sortBy, "date")] # e[Default(r.req.sortBy, "date")]
  ELSE IF r.op = "getCategoryBreakdown" /\ r.status = 200
    THEN \A i, j \in 1..Len(r.data) : i # j => r.data[i].total # r.data[j].total
  ELSE TRUE

listOfRange(req) ==
  [NoFilter EXCEPT !.startDate = req.startDate, !.endDate = req.endDate]

\* C24: for the same user, store contents and startDate/endDate parameters
\* (both, one or neither, each a date when given), the Summary's
\* totalTransactions is the totalItems of the List.
C24_SummaryMatchesList ==
  (/\ resp.op = "getTransactionSummary"
   /\ resp.status = 200
   /\ resp.req.startDate # <<>> => NewDate(resp.req.startDate).valid
   /\ resp.req.endDate # <<>> => NewDate(resp.req.endDate).valid) =>
    \A o \in sortedOrders(find(buildQuery(resp.user, listOfRange(resp.req))),
                          "date", -1) :
      resp.data.totalTransactions =
        listResponse(resp.user, listOfRange(resp.req), o,
                     countDocuments(buildQuery(resp.user, listOfRange(resp.req)))
                    ).pagination.totalItems

\* C25: a successful createTransaction stores one new transaction, the one
\* it returns, and its user is the requester, whatever the body says about
\* user.
C25_CreatedBelongsToRequester ==
  [][(resp = NoResp /\ resp'.op = "createTransaction" /\ resp'.status = 201) =>
       /\ transactions' = transactions \cup {resp'.data}
       /\ resp'.data \notin transactions
       /\ resp'.data.user = resp'.user]_vars

\* A create whose body names another user, stored under the requester.
C25_Witness ==
  /\ resp.op = "createTransaction"
  /\ resp.status = 201
  /\ "user" \in DOMAIN resp.req
  /\ resp.req.user # resp.user
  /\ resp.data \in transactions
  /\ resp.data.user = resp.user

Max(a, b) == IF a > b THEN a ELSE b

\* C26: in a successful list response the number of records in data is
\* min(pageSize, max(0, totalItems - (page - 1) * pageSize)), also when
\* creates or deletes come between the page fetch and the count.
C26_ListConsistent ==
  (resp.op = "getTransactions" /\ resp.status = 200) =>
    LET p == resp.pagination
    IN Len(resp.data) =
         Min(p.itemsPerPage,
             Max(0, p.totalItems - (p.currentPage - 1) * p.itemsPerPage))

\* C27: whenever updateTransaction answers 200, the data of the response is
\* the updated transaction: not null, in the store, and owned by the
\* requester, also when a delete of the same id comes between the ownership
\* check and the write.
C27_UpdatedExists ==
  [][(/\ resp = NoResp
      /\ resp'.op = "updateTransaction"
      /\ resp'.status = 200)
     => (/\ resp'.data # Null
         /\ resp'.data \in transactions'
         /\ resp'.data.user = resp'.user)]_vars

\* C28: deleteAccount is all-or-nothing.  When it answers with an error
\* (missing or wrong password, or a store failure at any step), the user
\* record is still there and none of the user's transactions has been
\* removed by the request.
C28_AllOrNothing ==
  (resp.op = "deleteAccount" /\ ~resp.success) =>
    /\ resp.user \in users
    /\ touchedDocs = {}

\* C29: in every successful list response the offset (page - 1) * pageSize
\* is non-negative and totalPages is a finite non-negative integer, for
\* every integer page and limit, zero and the negative ones included.
C29_PagingArithmetic ==
  (resp.op = "getTransactions" /\ resp.status = 200) =>
    LET p == resp.pagination
    IN /\ skipOf(p.currentPage, p.itemsPerPage) >= 0
       /\ p.totalPagesKind = "finite"
       /\ p.totalPages >= 0

\* C30: the client's bulkDeleteTransactions(ids) and the server's handler
\* agree on the shape of the request: a client call with a non-empty list of
\* valid ids of transactions the user owns is accepted, and deletes them.
C30_ClientBulkDeleteAccepted ==
  [][(/\ resp = NoResp
      /\ resp'.op = "bulkDeleteTransactions"
      /\ "ids" \in DOMAIN resp'.req
      /\ resp'.req.ids # {}
      /\ \A id \in resp'.req.ids : findOne(id, resp'.user) # {})
     => (/\ resp'.status = 200
         /\ \A d \in transactions' : d.id \notin resp'.req.ids)]_vars

====
